---------------------------- MODULE Spec2Model ----------------------------
(***************************************************************************)
(* Model of generate_test_data.py: the CDP profile event sender.           *)
(*                                                                         *)
(*   SpecGen   main(), lines 296-306: the identity pools and the events    *)
(*             generate_event draws from them.                             *)
(*   SpecCall  one call of send_event over every kind of reply.            *)
(*   Spec      main(), lines 316-327: send_events_batch or                 *)
(*             send_events_sequential over a list of events, followed by   *)
(*             print_statistics over the results.                          *)
(*   FairSpec  Spec with the scheduling of the worker threads made fair.   *)
(*                                                                         *)
(* An event is [type, traits: [idcard, old_idcard]]: the other fields of   *)
(* the event are written by generate_event and read by nobody.  An idcard  *)
(* k stands for the string str(100000000000 + k) of line 298.  A python    *)
(* value that may be None is a sequence of length at most one: None is     *)
(* << >> and a text t is << t >>.  A text is a sequence of characters.     *)
(* A python dict is a function whose domain is the set of its keys.        *)
(***************************************************************************)
EXTENDS Integers, Sequences, FiniteSets, TLC

VARIABLES
    pc,                 \* where main() is
    num_events,         \* config.NUM_EVENTS
    num_unique,         \* config.NUM_UNIQUE_IDCARDS
    idcard_pool,        \* main: idcard_pool
    old_idcard_pool,    \* main: old_idcard_pool
    events,             \* main: events
    call,               \* one call of send_event: its arguments and its result
    mode,               \* args.mode
    max_workers,        \* args.workers
    submitted,          \* send_events_batch: how many futures were submitted
    fstate,             \* the state of each future of the executor
    fresult,            \* the result each finished future holds
    replies,            \* what the network answered to the POST of each event
    attempts,           \* how many POSTs were issued for each event
    seq_i,              \* send_events_sequential: the loop index i
    results,            \* the results list of the dispatcher
    stats,              \* print_statistics: its local variables
    report              \* print_statistics: what was printed

genVars  == <<num_events, num_unique, idcard_pool, old_idcard_pool>>
sendVars == <<mode, max_workers, submitted, fstate, fresult, replies, attempts, seq_i, results>>
statVars == <<stats, report>>
vars     == <<pc, events, call, genVars, sendVars, statVars>>

---------------------------------------------------------------------------
(* Bounds of the model *)

MaxEvents == 3
MaxWorkers == 2
MaxPool == 2
MaxGenEvents == 3
NumIdcardValues == 2

(* Program constants *)

SuccessCreated == 201
SuccessOk == 200
ErrorStatusMin == 400
ResponseKeep == 200
FailedShown == 10

TYPES == {"login", "register", "update_profile", "purchase", "view_product"}

---------------------------------------------------------------------------
(* Values *)

None == << >>
Some(t) == << t >>

Min(a, b) == IF a <= b THEN a ELSE b

\* python s[:n]
Take(s, n) == SubSeq(s, 1, Min(Len(s), n))

\* a response body of n characters
Body(n) == [k \in 1..n |-> IF k % 2 = 1 THEN "x" ELSE "y"]

\* the values fake.random_int of line 298 and of line 300 can return
IdcardValues == 0..(NumIdcardValues - 1)
OldIdcardValues == {0, 1}

\* the event types the model draws
SampleTypes == {"login", "purchase"}

Event(t, id, old) == [type |-> t, traits |-> [idcard |-> id, old_idcard |-> old]]

\* the exceptions requests.post raises; all are subclasses of Exception
Faults == {"ConnectionError", "ReadTimeout"}

Response(status, text) == [kind |-> "response", status_code |-> status, text |-> text]
Fault(f) == [kind |-> "fault", fault |-> f]

---------------------------------------------------------------------------
(* send_event *)

\* line 126: response.status_code in [200, 201]
IsSuccessAny2xx(status) == status >= 200 /\ status < 300
IsSuccess(status) == status \in {SuccessOk, SuccessCreated}

\* line 129: response.text[:200] if response.status_code >= 400 else None
ResponseFieldAbove400(status, text) == IF status > ErrorStatusMin THEN Some(Take(text, ResponseKeep)) ELSE None
ResponseField(status, text) == IF status >= ErrorStatusMin THEN Some(Take(text, ResponseKeep)) ELSE None

\* line 131: except Exception
CaughtOnlyConnection(f) == f = "ConnectionError"
Caught(f) == f \in Faults

\* lines 108-139: the value send_event returns for the reply of the network;
\* [raised |-> f] stands for the exception f leaving send_event
send_event(event, index, reply) ==
    IF reply.kind = "response"
    THEN [index |-> index,
          status_code |-> reply.status_code,
          success |-> IsSuccess(reply.status_code),
          idcard |-> event.traits.idcard,
          type |-> event.type,
          response |-> ResponseField(reply.status_code, reply.text)]
    ELSE IF Caught(reply.fault)
    THEN [index |-> index,
          status_code |-> 0,
          success |-> FALSE,
          idcard |-> event.traits.idcard,
          type |-> event.type,
          error |-> reply.fault]
    ELSE [raised |-> reply.fault]

Raised(outcome) == "raised" \in DOMAIN outcome

---------------------------------------------------------------------------
(* Values of the variables a specification does not use *)

IdleGen == /\ num_events = 0
           /\ num_unique = 0
           /\ idcard_pool = << >>
           /\ old_idcard_pool = << >>
IdleCall == call = [state |-> "idle"]
IdleSend == /\ mode = "none"
            /\ max_workers = 0
            /\ submitted = 0
            /\ fstate = << >>
            /\ fresult = << >>
            /\ replies = << >>
            /\ attempts = << >>
            /\ seq_i = 0
            /\ results = << >>
IdleStat == /\ stats = [computed |-> FALSE]
            /\ report = << >>

---------------------------------------------------------------------------
(* SpecCall: one call of send_event *)

CallStatuses == {200, 201, 202, 204, 301, 304, 399, 400, 404, 500}
CallBodyLens == {0, 5, ResponseKeep, ResponseKeep + 1}
CallReplies == {Response(s, Body(n)) : s \in CallStatuses, n \in CallBodyLens}
                   \cup {Fault(f) : f \in Faults}
CallEvents == {Event(t, id, 0) : t \in SampleTypes, id \in IdcardValues}

InitCall ==
    /\ pc = "call"
    /\ events = << >>
    /\ \E e \in CallEvents, i \in 1..MaxEvents, r \in CallReplies :
          call = [state |-> "calling", event |-> e, index |-> i, reply |-> r]
    /\ IdleGen /\ IdleSend /\ IdleStat

\* lines 108-139
SendEvent ==
    /\ pc = "call"
    /\ call.state = "calling"
    /\ LET out == send_event(call.event, call.index, call.reply)
       IN call' = [call EXCEPT !.state = IF Raised(out) THEN "raised" ELSE "returned"]
                      @@ [outcome |-> out]
    /\ UNCHANGED <<pc, events, genVars, sendVars, statVars>>

NextCall == SendEvent

SpecCall == InitCall /\ [][NextCall]_vars


CallDone == call.state \in {"returned", "raised"}
CallGotResponse == CallDone /\ call.reply.kind = "response"
CallGotFault == CallDone /\ call.reply.kind = "fault"

\* C3: the outcome of send_event has success = TRUE exactly when the status of
\* the response is 200 or 201; every other status, other 2xx codes included,
\* and the status 0 of a transport fault give success = FALSE.
C3_SuccessIffOkOrCreated ==
    /\ CallGotResponse =>
          /\ call.state = "returned"
          /\ call.outcome.status_code = call.reply.status_code
          /\ call.outcome.success = (call.reply.status_code = 200 \/ call.reply.status_code = 201)
    /\ (CallGotFault /\ call.state = "returned") =>
          /\ call.outcome.status_code = 0
          /\ call.outcome.success = FALSE

C3_Witness ==
    /\ CallGotResponse
    /\ call.reply.status_code = 202
    /\ call.outcome.success = FALSE

\* C4: when the POST raises a transport fault or times out, send_event raises
\* nothing: it returns an outcome with status_code 0, success FALSE, the
\* idcard and the type of the event, and the text of the fault.
C4_FaultIsCaptured ==
    CallGotFault =>
        /\ call.state = "returned"
        /\ call.outcome.index = call.index
        /\ call.outcome.status_code = 0
        /\ call.outcome.success = FALSE
        /\ call.outcome.idcard = call.event.traits.idcard
        /\ call.outcome.type = call.event.type
        /\ call.outcome.error = call.reply.fault

C4_Witness ==
    /\ CallGotFault
    /\ call.reply.fault = "ReadTimeout"
    /\ call.state = "returned"
    /\ call.outcome.status_code = 0

\* the value v is the text made of the first n characters of text
IsPrefixOfLength(v, text, n) ==
    /\ Len(v) = Min(Len(text), n)
    /\ \A k \in 1..Len(v) : v[k] = text[k]

\* C9 as claimed: on every response whose status is outside 200..299, 3xx
\* included, the response field of the outcome holds the first 200 characters
\* of the body and is never empty or None.
C9_Original_Non2xxKeepsBody ==
    (CallGotResponse /\ ~(call.reply.status_code \in 200..299)) =>
        /\ call.outcome.response # None
        /\ call.outcome.response[1] # << >>
        /\ IsPrefixOfLength(call.outcome.response[1], call.reply.text, 200)

\* C9 as amended: on every response whose status is 400 or more, the response
\* field of the outcome holds the first 200 characters of the body (the empty
\* text when the body is empty); on every response whose status is below 400,
\* 3xx included, the response field is None.
C9_BodyKeptFrom400 ==
    CallGotResponse =>
        /\ call.state = "returned"
        /\ call.reply.status_code >= 400 =>
              /\ Len(call.outcome.response) = 1
              /\ IsPrefixOfLength(call.outcome.response[1], call.reply.text, 200)
        /\ call.reply.status_code < 400 => call.outcome.response = None

C9_Witness ==
    /\ CallGotResponse
    /\ call.reply.status_code = 400
    /\ Len(call.reply.text) = 201
    /\ Len(call.outcome.response[1]) = 200

---------------------------------------------------------------------------
(* Spec: the dispatcher of main() and print_statistics *)

\* the events and the replies the model draws
SampleEvents == {Event("login", 0, 0), Event("purchase", 1, 0)}
SampleReplies == {Response(200, Body(0)), Response(404, Body(5)), Fault("ReadTimeout")}

SeqsUpTo(S, n) == UNION {[1..k -> S] : k \in 0..n}

N == Len(events)

\* main at line 317, with the events generated and the arguments parsed
BeforeSend(evs) ==
    /\ pc = "send"
    /\ events = evs
    /\ \/ mode = "batch" /\ max_workers \in 1..MaxWorkers
       \/ mode = "sequential" /\ max_workers = 1
    /\ submitted = 0
    /\ fstate = [i \in 1..Len(evs) |-> "unsubmitted"]
    /\ fresult = [i \in 1..Len(evs) |-> None]
    /\ replies = [i \in 1..Len(evs) |-> None]
    /\ attempts = [i \in 1..Len(evs) |-> 0]
    /\ seq_i = 0
    /\ results = << >>
    /\ IdleGen /\ IdleCall /\ IdleStat

Init == \E evs \in SeqsUpTo(SampleEvents, MaxEvents) : BeforeSend(evs)

\* one list of events per length: the scheduling does not read the events
InitFair ==
    \E n \in 0..MaxEvents :
        BeforeSend([i \in 1..n |-> IF i % 2 = 1 THEN Event("login", 0, 0)
                                                ELSE Event("purchase", 1, 0)])

\* lines 319-322: main calls the dispatcher of args.mode
StartSend ==
    /\ pc = "send"
    /\ pc' = IF mode = "batch" THEN "submit" ELSE "seq"
    /\ seq_i' = IF mode = "batch" THEN seq_i ELSE 1
    /\ UNCHANGED <<events, call, genVars, statVars, mode, max_workers, submitted,
                   fstate, fresult, replies, attempts, results>>

(* send_events_batch *)

InFlight == Cardinality({i \in DOMAIN fstate : fstate[i] = "running"})

\* line 149: ThreadPoolExecutor(max_workers): a queued call starts only on one
\* of the max_workers threads of the pool
WorkerAlwaysFree == TRUE
WorkerFree == InFlight < max_workers

\* lines 160 and 165: results.append(result)
CollectOnlySuccess(rs, r) == IF r.success THEN Append(rs, r) ELSE rs
CollectResult(rs, r) == Append(rs, r)

\* lines 152-154: executor.submit(send_event, event, i, config), one per event
Submit ==
    /\ pc = "submit"
    /\ submitted < N
    /\ submitted' = submitted + 1
    /\ fstate' = [fstate EXCEPT ![submitted + 1] = "queued"]
    /\ UNCHANGED <<pc, events, call, genVars, statVars, mode, max_workers,
                   fresult, replies, attempts, seq_i, results>>

\* lines 156-158 and 163: the loop over as_completed(futures) starts once
\* every event is submitted
StartCollect ==
    /\ pc = "submit"
    /\ submitted = N
    /\ pc' = "collect"
    /\ UNCHANGED <<events, call, genVars, sendVars, statVars>>

\* line 153: a free thread of the pool takes the oldest call of the work
\* queue and runs send_event up to the POST of lines 116-121
WorkerStart(i) ==
    /\ pc \in {"submit", "collect"}
    /\ fstate[i] = "queued"
    /\ \A j \in 1..(i - 1) : fstate[j] # "queued"
    /\ WorkerFree
    /\ fstate' = [fstate EXCEPT ![i] = "running"]
    /\ attempts' = [attempts EXCEPT ![i] = @ + 1]
    /\ UNCHANGED <<pc, events, call, genVars, statVars, mode, max_workers,
                   submitted, fresult, replies, seq_i, results>>

\* lines 116-139 on a thread of the pool: the reply arrives, within the
\* timeout of line 120, and the future is set to what send_event returns
WorkerFinish(i, reply) ==
    /\ pc \in {"submit", "collect"}
    /\ fstate[i] = "running"
    /\ fstate' = [fstate EXCEPT ![i] = "finished"]
    /\ replies' = [replies EXCEPT ![i] = Some(reply)]
    /\ fresult' = [fresult EXCEPT ![i] = Some(send_event(events[i], i, reply))]
    /\ UNCHANGED <<pc, events, call, genVars, statVars, mode, max_workers,
                   submitted, attempts, seq_i, results>>

\* lines 158-161 and 163-165: as_completed yields a finished future;
\* future.result() returns its value, or raises what send_event raised
Collect(i) ==
    /\ pc = "collect"
    /\ fstate[i] = "finished"
    /\ fstate' = [fstate EXCEPT ![i] = "collected"]
    /\ IF Raised(fresult[i][1])
       THEN pc' = "send_raised" /\ results' = results
       ELSE pc' = pc /\ results' = CollectResult(results, fresult[i][1])
    /\ UNCHANGED <<events, call, genVars, statVars, mode, max_workers,
                   submitted, fresult, replies, attempts, seq_i>>

\* line 167: return results, after as_completed has yielded every future
ReturnBatch ==
    /\ pc = "collect"
    /\ \A i \in 1..N : fstate[i] = "collected"
    /\ pc' = "stats"
    /\ UNCHANGED <<events, call, genVars, sendVars, statVars>>

(* send_events_sequential *)

\* line 178: the next (i, event) of enumerate(events, 1)
RetryUntilSuccess(i, outcome) == IF outcome.success THEN i + 1 ELSE i
NextIndex(i, outcome) == i + 1

\* line 180: results.append(result)
PrependResult(rs, r) == <<r>> \o rs
AppendResult(rs, r) == Append(rs, r)

\* lines 178-181: one iteration of the loop
SeqSend(reply) ==
    /\ pc = "seq"
    /\ seq_i <= N
    /\ attempts' = [attempts EXCEPT ![seq_i] = @ + 1]
    /\ replies' = [replies EXCEPT ![seq_i] = Some(reply)]
    /\ LET result == send_event(events[seq_i], seq_i, reply)
       IN IF Raised(result)
          THEN pc' = "send_raised" /\ results' = results /\ seq_i' = seq_i
          ELSE /\ pc' = pc
               /\ results' = AppendResult(results, result)
               /\ seq_i' = NextIndex(seq_i, result)
    /\ UNCHANGED <<events, call, genVars, statVars, mode, max_workers,
                   submitted, fstate, fresult>>

\* line 183: return results
ReturnSeq ==
    /\ pc = "seq"
    /\ seq_i > N
    /\ pc' = "stats"
    /\ UNCHANGED <<events, call, genVars, sendVars, statVars>>

(* print_statistics *)

\* d.get(k, default)
Get(d, k, default) == IF k \in DOMAIN d THEN d[k] ELSE default

\* d[k] = v
Put(d, k, v) == [x \in DOMAIN d \cup {k} |-> IF x = k THEN v ELSE d[x]]

\* lines 195-198, 201-204 and 207-210: the dict that counts each key of keys,
\* built by one pass of d[key] = d.get(key, 0) + 1
RECURSIVE Tally(_)
Tally(keys) ==
    IF keys = << >>
    THEN << >>
    ELSE LET d == Tally(SubSeq(keys, 1, Len(keys) - 1))
             k == keys[Len(keys)]
         IN Put(d, k, Get(d, k, 0) + 1)

\* sum(d.values())
RECURSIVE SumValues(_)
SumValues(d) ==
    IF DOMAIN d = {}
    THEN 0
    ELSE LET k == CHOOSE x \in DOMAIN d : TRUE
         IN d[k] + SumValues([x \in DOMAIN d \ {k} |-> d[x]])

\* line 191: sum(1 for r in results if r['success'])
SuccessCount(rs) == Cardinality({i \in DOMAIN rs : rs[i].success})

\* line 212: the test v > 1 of the dict comprehension
OccursAtAll(v) == v >= 1
OccursMoreThanOnce(v) == v > 1

\* line 212: {k: v for k, v in idcard_count.items() if v > 1}
DuplicateIdcards(idcard_count) ==
    [k \in {x \in DOMAIN idcard_count : OccursMoreThanOnce(idcard_count[x])} |-> idcard_count[k]]

\* line 245: r.get('error') or r.get('response', 'Unknown error')
ErrorMsg(r) ==
    IF "error" \in DOMAIN r /\ r.error # ""
    THEN r.error
    ELSE IF "response" \in DOMAIN r THEN r.response ELSE "Unknown error"

\* line 243: [r for r in results if not r['success']][:10]
FailedRequests(rs) == Take(SelectSeq(rs, LAMBDA r : ~r.success), FailedShown)

\* lines 191-212: the counts
ComputeStatistics ==
    /\ pc = "stats"
    /\ stats' = [computed |-> TRUE,
                 success_count |-> SuccessCount(results),
                 failed_count |-> Len(results) - SuccessCount(results),
                 status_codes |-> Tally([i \in DOMAIN results |-> results[i].status_code]),
                 type_dist |-> Tally([i \in DOMAIN events |-> events[i].type]),
                 idcard_count |-> Tally([i \in DOMAIN events |-> events[i].traits.idcard]),
                 duplicate_idcards |->
                     DuplicateIdcards(Tally([i \in DOMAIN events |-> events[i].traits.idcard]))]
    /\ pc' = "summary"
    /\ UNCHANGED <<events, call, genVars, sendVars, report>>

\* lines 214-219: the header and the two lines that divide by len(results);
\* the division raises ZeroDivisionError when results is empty
PrintSummary ==
    /\ pc = "summary"
    /\ IF Len(results) = 0
       THEN pc' = "raised" /\ report' = report
       ELSE /\ pc' = "details"
            /\ report' = [success |-> stats.success_count,
                          failed |-> stats.failed_count,
                          total |-> Len(results)]
    /\ UNCHANGED <<events, call, genVars, sendVars, stats>>

\* lines 221-248: the status codes, the event types, the merge information
\* and the failed requests
PrintDetails ==
    /\ pc = "details"
    /\ report' = report @@
           [status_codes |-> stats.status_codes,
            type_dist |-> stats.type_dist,
            unique_idcards |-> Cardinality(DOMAIN stats.idcard_count),
            idcards_with_duplicates |-> Cardinality(DOMAIN stats.duplicate_idcards),
            merge_total |-> SumValues(stats.duplicate_idcards),
            failed_requests |->
                IF stats.failed_count > 0
                THEN [k \in DOMAIN FailedRequests(results) |->
                         <<FailedRequests(results)[k].index, ErrorMsg(FailedRequests(results)[k])>>]
                ELSE << >>]
    /\ pc' = "done"
    /\ UNCHANGED <<events, call, genVars, sendVars, stats>>

\* one step of main: every action above, the replies drawn from R
Step(R) ==
    \/ StartSend
    \/ Submit
    \/ StartCollect
    \/ \E i \in 1..N : WorkerStart(i)
    \/ \E i \in 1..N, reply \in R : WorkerFinish(i, reply)
    \/ \E i \in 1..N : Collect(i)
    \/ ReturnBatch
    \/ \E reply \in R : SeqSend(reply)
    \/ ReturnSeq
    \/ ComputeStatistics
    \/ PrintSummary
    \/ PrintDetails

Next == Step(SampleReplies)

Spec == Init /\ [][Next]_vars

\* the replies of the fair specification: the scheduling reads of a reply only
\* whether it is a response or a fault
FairReplies == {Response(200, Body(0)), Fault("ReadTimeout")}

NextFair == Step(FairReplies)

\* the threads of the pool and the main thread keep running, and every POST
\* ends, with a reply or with the timeout of line 120
FairSpec == InitFair /\ [][NextFair]_vars /\ WF_vars(NextFair)

\* the dispatcher has returned its results to main
Returned == pc \in {"stats", "summary", "details", "done", "raised"}

\* what send_event gives for event i and the reply the network gave to it
SentOutcome(i) == send_event(events[i], i, replies[i][1])

\* C1: when send_events_batch returns, for every worker count and every order
\* of completion, the results hold exactly one outcome per input event, none
\* missing and none twice, and each is the outcome of send_event for that
\* event with its 1-based position as index.
C1_BatchOutcomesAreTheSends ==
    /\ mode = "batch" => pc # "send_raised"
    /\ (mode = "batch" /\ Returned) =>
          /\ Len(results) = N
          /\ \A i \in 1..N : Cardinality({k \in DOMAIN results : results[k].index = i}) = 1
          /\ \A k \in DOMAIN results :
                /\ results[k].index \in 1..N
                /\ results[k] = SentOutcome(results[k].index)
                /\ results[k].idcard = events[results[k].index].traits.idcard
                /\ results[k].type = events[results[k].index].type

C1_Witness ==
    /\ mode = "batch"
    /\ pc = "stats"
    /\ N = 3
    /\ max_workers = 2
    /\ results[1].index = 3
    /\ \E k \in DOMAIN results : ~results[k].success
    /\ \E k \in DOMAIN results : results[k].success

\* C2: when send_events_sequential returns, the results have one outcome per
\* input event and the i-th outcome is the outcome of sending the i-th event
\* (index i, its idcard and its type), whatever the replies were.
C2_SequentialKeepsOrder ==
    /\ mode = "sequential" => pc # "send_raised"
    /\ (mode = "sequential" /\ Returned) =>
          /\ Len(results) = N
          /\ \A i \in 1..N :
                /\ results[i].index = i
                /\ results[i] = SentOutcome(i)
                /\ results[i].idcard = events[i].traits.idcard
                /\ results[i].type = events[i].type

C2_Witness ==
    /\ mode = "sequential"
    /\ pc = "stats"
    /\ N = 3
    /\ events[1] # events[2]
    /\ results[1].status_code = 0
    /\ results[2].status_code = 404
    /\ results[3].status_code = 200

\* C5: in both modes every event is POSTed exactly once over the run: never
\* twice, and once the dispatcher has returned none was skipped, whatever the
\* replies to the other events were; no reply stops the run of the sends.
C5_EachEventSentOnce ==
    /\ pc # "send_raised"
    /\ \A i \in 1..N : attempts[i] <= 1
    /\ Returned => \A i \in 1..N : attempts[i] = 1

C5_Witness ==
    /\ Returned
    /\ N = 3
    /\ replies[1][1].kind = "fault"
    /\ replies[2][1].kind = "response" /\ replies[2][1].status_code = 404
    /\ \A i \in 1..N : attempts[i] = 1

\* the number of events whose idcard occurs in more than one event
EventsOfRepeatedIdcards ==
    Cardinality({i \in DOMAIN events :
                    \E j \in DOMAIN events : j # i /\ events[j].traits.idcard = events[i].traits.idcard})

\* C7: in the report of print_statistics the counts per status code sum to
\* the number of outcomes, the counts per type sum to the number of events,
\* and the merge total is the sum of the occurrence counts of exactly the
\* idcards that occur more than once in the events.
C7_ReportCountsAddUp ==
    pc = "done" =>
        /\ SumValues(report.status_codes) = Len(results)
        /\ \A c \in DOMAIN report.status_codes :
              report.status_codes[c] = Cardinality({k \in DOMAIN results : results[k].status_code = c})
        /\ SumValues(report.type_dist) = Len(events)
        /\ report.merge_total = EventsOfRepeatedIdcards
        /\ report.success + report.failed = report.total

C7_Witness ==
    /\ pc = "done"
    /\ N = 3
    /\ report.merge_total = 2
    /\ Cardinality(DOMAIN report.status_codes) = 3
    /\ Cardinality(DOMAIN report.type_dist) = 2

\* C8 as claimed: print_statistics raises nothing and prints its report for
\* every list of outcomes and every list of events, the empty lists of a run
\* with zero events included.
C8_StatisticsNeverRaise == pc # "raised"

\* C10: in send_events_batch at most max_workers sends are in flight at any
\* time, the collection of results starts only after all N events were
\* submitted, the calls beyond max_workers waiting in the queue, and all N
\* sends eventually complete.
C10_PoolIsBounded ==
    /\ [](mode = "batch" =>
             /\ InFlight <= max_workers
             /\ pc = "collect" => submitted = N)
    /\ <>(mode = "batch" => \A i \in 1..N : fstate[i] \in {"finished", "collected"})

C10_Witness ==
    /\ mode = "batch"
    /\ N = 3
    /\ submitted = N
    /\ max_workers = 2
    /\ InFlight = max_workers
    /\ \E i \in 1..N : fstate[i] = "queued"

---------------------------------------------------------------------------
(* SpecGen: the identity pools and the events of main() *)

InitGen ==
    /\ pc = "pools"
    /\ num_events \in 0..MaxGenEvents
    /\ num_unique \in 0..MaxPool
    /\ idcard_pool = << >>
    /\ old_idcard_pool = << >>
    /\ events = << >>
    /\ IdleCall /\ IdleSend /\ IdleStat

\* lines 298-301: each entry of each pool is an independent random draw
GeneratePools ==
    /\ pc = "pools"
    /\ idcard_pool' \in [1..num_unique -> IdcardValues]
    /\ old_idcard_pool' \in [1..num_unique -> OldIdcardValues]
    /\ pc' = "events"
    /\ UNCHANGED <<events, call, num_events, num_unique, sendVars, statVars>>

\* line 51: idcard_pool[idcard_index], the index counted from 0
IndexAsIdcard(pool, idcard_index, index) == index
PickIdcard(pool, idcard_index, index) == pool[idcard_index + 1]

\* lines 46-102: the event generate_event(index, ...) returns when randint
\* gives idcard_index and random.choice(TYPES) gives t
generate_event(index, idcard_index, t) ==
    Event(t, PickIdcard(idcard_pool, idcard_index, index), old_idcard_pool[idcard_index + 1])

\* lines 305-306: one call of generate_event; with an empty pool
\* random.randint(0, -1) of line 50 raises ValueError
GenerateEvent ==
    /\ pc = "events"
    /\ Len(events) < num_events
    /\ IF Len(idcard_pool) = 0
       THEN pc' = "gen_raised" /\ events' = events
       ELSE /\ pc' = pc
            /\ \E idcard_index \in 0..(Len(idcard_pool) - 1), t \in SampleTypes :
                  events' = Append(events, generate_event(Len(events) + 1, idcard_index, t))
    /\ UNCHANGED <<call, genVars, sendVars, statVars>>

\* line 307: every event is generated
GenerationDone ==
    /\ pc = "events"
    /\ Len(events) = num_events
    /\ pc' = "generated"
    /\ UNCHANGED <<events, call, genVars, sendVars, statVars>>

NextGen ==
    \/ GeneratePools
    \/ GenerateEvent
    \/ GenerationDone

SpecGen == InitGen /\ [][NextGen]_vars

DistinctIdcards == {events[i].traits.idcard : i \in DOMAIN events}

=============================================================================
